---- MODULE Spec2Model ----
(***************************************************************************)
(* OpenNSA aggregator (opennsa/aggregator.py), topology path finder        *)
(* (opennsa/topology/topology.py) and NSI2 protocol provider               *)
(* (opennsa/protocols/nsi2/provider.py) as a state machine.                *)
(*                                                                         *)
(* The connection store holds ServiceConnection rows (conns) and           *)
(* Subconnection rows (subs).  Every aggregator operation is a Twisted     *)
(* inlineCallbacks generator: it runs atomically between two yields, so    *)
(* each action below is the code between two suspension points.            *)
(***************************************************************************)
EXTENDS Integers, Sequences, FiniteSets, TLC

\* ------------------------------------------------------------- bounds
MaxOps    == 2      \* operations invoked on the aggregator in one behaviour
MaxIds    == 1      \* size of the pool random connection ids are drawn from
MaxResults == 3     \* legs of a fan-out whose results the error builder is given
MaxCalls  == 3      \* requests and confirmations the protocol provider is given

Ops     == 1..MaxOps
ConnIds == 1..MaxIds
None    == 0        \* Python None for an absent connection_id / row

\* ------------------------------------------------------------- states
INITIAL            == "Initial"
RESERVE_CHECKING   == "ReserveChecking"
RESERVE_HELD       == "ReserveHeld"
RESERVE_COMMITTING == "ReserveCommitting"
RESERVED           == "Reserved"
RESERVE_FAILED     == "ReserveFailed"
SCHEDULED          == "Scheduled"
PROVISIONING       == "Provisioning"
PROVISIONED        == "Provisioned"
RELEASING          == "Releasing"
INACTIVE           == "Inactive"
CREATED            == "Created"
TERMINATING        == "Terminating"
TERMINATED         == "Terminated"
TERMINATED_FAILED  == "TerminatedFailed"

\* registry localities and events
NSI2_LOCAL     == "LOCAL"
NSI2_REMOTE    == "REMOTE"
RESERVE        == "RESERVE"
RESERVE_COMMIT == "RESERVE_COMMIT"
TERMINATE      == "TERMINATE"

\* ------------------------------------------------------------- topology
\* An endpoint of a network: its name, its remote pairing (dest_stp),
\* NoStp when the port is not paired, and its available capacity, None when
\* it has none.
NoStp == [network |-> "", port |-> ""]

EpCap(network, port, dest, capacity) ==
  [network |-> network, port |-> port, dest_stp |-> dest,
   available_capacity |-> capacity]
Ep(network, port, dest) == EpCap(network, port, dest, None)
Peer(network, port)     == [network |-> network, port |-> port]

\* The topology the aggregator is constructed with: the local network A in
\* a ring with B and C, its port towards C listed before its port towards B,
\* and a network E that no port is paired with.
Topo ==
  << [name |-> "A", managing_nsa |-> "nsaA",
      endpoints |-> << Ep("A", "a1", NoStp), Ep("A", "a2", NoStp),
                       Ep("A", "az", Peer("C", "cz")),
                       Ep("A", "ax", Peer("B", "bx")) >>],
     [name |-> "B", managing_nsa |-> "nsaB",
      endpoints |-> << Ep("B", "bx", Peer("A", "ax")), Ep("B", "by", Peer("C", "cy")),
                       Ep("B", "b1", NoStp) >>],
     [name |-> "C", managing_nsa |-> "nsaC",
      endpoints |-> << Ep("C", "cy", Peer("B", "by")), Ep("C", "cz", Peer("A", "az")),
                       Ep("C", "c1", NoStp) >>],
     [name |-> "E", managing_nsa |-> "nsaE",
      endpoints |-> << Ep("E", "e1", NoStp) >>] >>

\* Three networks in a ring, every pairing usable from both sides.
Ring ==
  << [name |-> "A", managing_nsa |-> "nsaA",
      endpoints |-> << Ep("A", "a1", NoStp), Ep("A", "ax", Peer("B", "bx")),
                       Ep("A", "az", Peer("C", "cz")) >>],
     [name |-> "B", managing_nsa |-> "nsaB",
      endpoints |-> << Ep("B", "bx", Peer("A", "ax")), Ep("B", "by", Peer("C", "cy")),
                       Ep("B", "b1", NoStp) >>],
     [name |-> "C", managing_nsa |-> "nsaC",
      endpoints |-> << Ep("C", "cy", Peer("B", "by")), Ep("C", "cz", Peer("A", "az")),
                       Ep("C", "c1", NoStp) >>] >>

\* The ring with the endpoints of every network added in the other order.
RingReversed ==
  << [name |-> "A", managing_nsa |-> "nsaA",
      endpoints |-> << Ep("A", "az", Peer("C", "cz")), Ep("A", "ax", Peer("B", "bx")),
                       Ep("A", "a1", NoStp) >>],
     [name |-> "B", managing_nsa |-> "nsaB",
      endpoints |-> << Ep("B", "b1", NoStp), Ep("B", "by", Peer("C", "cy")),
                       Ep("B", "bx", Peer("A", "ax")) >>],
     [name |-> "C", managing_nsa |-> "nsaC",
      endpoints |-> << Ep("C", "c1", NoStp), Ep("C", "cz", Peer("A", "az")),
                       Ep("C", "cy", Peer("B", "by")) >>] >>

\* A VLAN-capable network (suffix .ets) paired three times with D.
Vlans(ets) ==
  << [name |-> ets, managing_nsa |-> "nsaS",
      endpoints |-> << Ep(ets, "s1", NoStp), Ep(ets, "s2", Peer("D", "d2")),
                       Ep(ets, "s5", Peer("D", "d5")), Ep(ets, "sx", Peer("D", "dx")) >>],
     [name |-> "D", managing_nsa |-> "nsaD",
      endpoints |-> << Ep("D", "d1", NoStp), Ep("D", "d2", Peer(ets, "s2")),
                       Ep("D", "d5", Peer(ets, "s5")), Ep("D", "dx", Peer(ets, "sx")) >>] >>

\* Two networks paired twice, with capacities on the ports.
Capacities ==
  << [name |-> "A", managing_nsa |-> "nsaA",
      endpoints |-> << Ep("A", "a1", NoStp),
                       EpCap("A", "ax", Peer("B", "bx"), 5),
                       EpCap("A", "az", Peer("B", "by"), 10) >>],
     [name |-> "B", managing_nsa |-> "nsaB",
      endpoints |-> << EpCap("B", "bx", Peer("A", "ax"), 10),
                       EpCap("B", "by", Peer("A", "az"), 10),
                       EpCap("B", "b1", NoStp, 5) >>] >>

\* Aggregator.__init__: self.network and self.nsa_
SelfNetwork == "A"
SelfNsa     == "nsaA"

hasNetwork(T, name) == \E i \in DOMAIN T : T[i].name = name
getNetwork(T, name) == T[CHOOSE i \in DOMAIN T : T[i].name = name]

hasEndpoint(T, network, port) ==
  /\ hasNetwork(T, network)
  /\ \E i \in DOMAIN getNetwork(T, network).endpoints :
        getNetwork(T, network).endpoints[i].port = port
getEndpoint(T, network, port) ==
  LET eps == getNetwork(T, network).endpoints
  IN  eps[CHOOSE i \in DOMAIN eps : eps[i].port = port]

\* nsa.Link: one intra-network hop
Link(network, src_port, dst_port) ==
  [network |-> network, src_port |-> src_port, dst_port |-> dst_port]

\* The characters of the network and port names of the topologies above.
Chars(name) ==
  CASE name = "A" -> << "A" >>
    [] name = "B" -> << "B" >>
    [] name = "C" -> << "C" >>
    [] name = "D" -> << "D" >>
    [] name = "E" -> << "E" >>
    [] name = "S.ets" -> << "S", ".", "e", "t", "s" >>
    [] name = "netherlight.ets" ->
         << "n", "e", "t", "h", "e", "r", "l", "i", "g", "h", "t", ".", "e", "t", "s" >>
    [] name = "northernlight.ets" ->
         << "n", "o", "r", "t", "h", "e", "r", "n", "l", "i", "g", "h", "t",
            ".", "e", "t", "s" >>
    [] name = "s0" -> << "s", "0" >>
    [] name = "s4" -> << "s", "4" >>
    [] name = "s1" -> << "s", "1" >>
    [] name = "s2" -> << "s", "2" >>
    [] name = "s5" -> << "s", "5" >>
    [] name = "sx" -> << "s", "x" >>
    [] name = "d1" -> << "d", "1" >>
    [] name = "d2" -> << "d", "2" >>
    [] name = "d5" -> << "d", "5" >>
    [] name = "dx" -> << "d", "x" >>

\* str.isdigit, int and ord on the characters of those names
isdigit(c) == c \in {"0", "1", "2", "3", "4", "5", "6", "7", "8", "9"}
int(c) ==
  CASE c = "0" -> 0 [] c = "1" -> 1 [] c = "2" -> 2 [] c = "3" -> 3 [] c = "4" -> 4
    [] c = "5" -> 5 [] c = "6" -> 6 [] c = "7" -> 7 [] c = "8" -> 8 [] c = "9" -> 9
ord(c) ==
  CASE c = "d" -> 100 [] c = "s" -> 115 [] c = "x" -> 120

\* str.endswith
endswith(name, suffix) ==
  LET n == Chars(name)
  IN  /\ Len(n) >= Len(suffix)
      /\ SubSeq(n, Len(n) - Len(suffix) + 1, Len(n)) = suffix

\* vlan leaving every value as it is
vlan_Unreduced(endpoint) ==
  LET cs      == Chars(endpoint)
      vlan_id == SelectSeq(cs, isdigit)
  IN  IF vlan_id = << >> THEN ord(cs[Len(cs)])
      ELSE int(vlan_id[Len(vlan_id)])

\* topology.py 81-89, vlan: the last digit of the port name, else the code
\* of its last character; 4 is taken off a value above 3.
vlan(endpoint) ==
  LET cs      == Chars(endpoint)
      vlan_id == SelectSeq(cs, isdigit)
      v       == IF vlan_id = << >> THEN ord(cs[Len(cs)])
                 ELSE int(vlan_id[Len(vlan_id)])
  IN  IF v > 3 THEN v - 4 ELSE v

\* topology.py 91-99, canConnect on the two ports of a link
canConnect(link) ==
  IF ~ endswith(link.network, << ".", "e", "t", "s" >>) THEN TRUE
  ELSE IF link.network \in {"northernlight.ets", "netherlight.ets"} THEN TRUE
  ELSE vlan(link.src_port) = vlan(link.dst_port)

\* topology.py 101: the lambda reads np, the variable of the comprehension
\* at line 102, which is the route it is called with.
isValidRoute(path) == \A i \in DOMAIN path : canConnect(path[i])

\* topology.py 79-103
pruneMismatchedPorts(network_paths) == SelectSeq(network_paths, isValidRoute)

\* A bandwidth argument: not given, or an object with a minimum (None or a
\* number).
NoBandwidth == [given |-> FALSE, minimum |-> None]
Bandwidth(minimum) == [given |-> TRUE, minimum |-> minimum]

\* topology.py 151-162
filterBandwidth(T, paths_sdps, bandwidths) ==
  LET short(port_capacity) ==
        port_capacity # None /\ bandwidths.minimum # None
          /\ port_capacity < bandwidths.minimum
      hasBandwidth(route) ==
        \A i \in DOMAIN route :
          /\ ~ short(getEndpoint(T, route[i].network, route[i].src_port).available_capacity)
          /\ ~ short(getEndpoint(T, route[i].network, route[i].dst_port).available_capacity)
  IN  SelectSeq(paths_sdps, hasBandwidth)

RECURSIVE findPathEndpoints(_, _, _, _)
RECURSIVE routesFrom(_, _, _, _, _)

\* closeRoute without the last hop, through the destination network
closeRoute_NoLastHop(source_stp, ep, dest_stp) ==
  << Link(source_stp.network, source_stp.port, ep.port) >>

\* topology.py 131-137: the pairing of ep leads to the destination network;
\* the route is the hop to ep and the last hop from its peer port.
closeRoute(source_stp, ep, dest_stp) ==
  << Link(source_stp.network, source_stp.port, ep.port),
     Link(ep.dest_stp.network, ep.dest_stp.port, dest_stp.port) >>

\* extendRoutes dropping the hop through the source network
extendRoutes_NoHop(source_stp, ep, subroutes) == subroutes

\* topology.py 141-146: every subroute from the peer of ep, with the hop from
\* the source port to ep put in front
extendRoutes(source_stp, ep, subroutes) ==
  LET sp == Link(source_stp.network, source_stp.port, ep.port)
  IN  [k \in 1..Len(subroutes) |-> << sp >> \o subroutes[k]]

\* The loop body of findPathEndpoints for endpoints i, i+1, ... of the
\* source network, in order.
routesFrom(T, source_stp, dest_stp, visited, i) ==
  LET snw == getNetwork(T, source_stp.network)
  IN  IF i > Len(snw.endpoints) THEN << >>
      ELSE
        LET ep   == snw.endpoints[i]
            rest == routesFrom(T, source_stp, dest_stp, visited, i + 1)
        IN  IF ep.dest_stp = NoStp THEN rest
            ELSE IF ep.dest_stp.network \in visited THEN rest
            ELSE IF ep.dest_stp.network = dest_stp.network
              THEN << closeRoute(source_stp, ep, dest_stp) >> \o rest
              ELSE extendRoutes(source_stp, ep,
                                findPathEndpoints(T, ep.dest_stp, dest_stp,
                                                  visited \cup {ep.dest_stp.network}))
                   \o rest

findPathEndpoints(T, source_stp, dest_stp, visited) ==
  routesFrom(T, source_stp, dest_stp, visited, 1)

\* findPaths starting the search with no network visited
findPaths_NoneVisited(T, source_stp, dest_stp, bandwidth) ==
  LET network_paths ==
        IF source_stp.network = dest_stp.network
          THEN << << Link(source_stp.network, source_stp.port, dest_stp.port) >> >>
          ELSE findPathEndpoints(T, source_stp, dest_stp, {})
      filtered ==
        IF bandwidth.given THEN filterBandwidth(T, network_paths, bandwidth)
        ELSE network_paths
  IN  pruneMismatchedPorts(filtered)

\* topology.py 58-75, findPaths for STPs that resolve to existing ports: the
\* routes in the order the search finds them
findPaths(T, source_stp, dest_stp, bandwidth) ==
  LET network_paths ==
        IF source_stp.network = dest_stp.network
          THEN << << Link(source_stp.network, source_stp.port, dest_stp.port) >> >>
          ELSE findPathEndpoints(T, source_stp, dest_stp, {source_stp.network})
      filtered ==
        IF bandwidth.given THEN filterBandwidth(T, network_paths, bandwidth)
        ELSE network_paths
  IN  pruneMismatchedPorts(filtered)

\* ------------------------------------------------------------- requests
STP(network, port, labels) == [network |-> network, port |-> port, labels |-> labels]
singleValue(labels)        == Cardinality(labels) = 1

\* service_params of the Reserve requests issued to the aggregator
ServiceParams ==
  { [source_stp |-> STP("A", "a1", {1}), dest_stp |-> STP("A", "a2", {1})],
    [source_stp |-> STP("A", "a1", {1}), dest_stp |-> STP("B", "b1", {1})],
    [source_stp |-> STP("A", "a1", {1}), dest_stp |-> STP("E", "e1", {1})],
    [source_stp |-> STP("A", "a1", {1}), dest_stp |-> STP("A", "a1", {1})],
    [source_stp |-> STP("A", "a1", {1}), dest_stp |-> STP("X", "x1", {1})],
    [source_stp |-> STP("A", "zz", {1}), dest_stp |-> STP("B", "b1", {1})] }

\* ------------------------------------------------------------- state
VARIABLES
  conns,   \* database.ServiceConnection rows; the row index is conn.id
  subs,    \* database.Subconnection rows
  ops,     \* the aggregator operations invoked so far, one record each
  call,    \* a call of the path finder or of the error builder on its own
  provider \* the protocol Provider: its notification table and its calls

vars == << conns, subs, ops, call, provider >>

NoLegs == << >>

\* An operation: the request (kind, connection_id), where its generator
\* stands (pc), the record it works on (conn, the row id, and loaded, the
\* in-memory copy made when it was loaded or created), its fan-out (legs,
\* comps; fanout once it has dispatched) and its outcome (ret, err).
NoRow == [connection_id |-> None]

\* No call is being followed on its own.
NoCall == [fn |-> "none"]

IdleOp ==
  [kind |-> "none", pc |-> "idle", connection_id |-> None, conn |-> None,
   loaded |-> NoRow, legs |-> NoLegs, comps |-> NoLegs, fanout |-> FALSE,
   ret |-> None, err |-> ""]

\* Operations are numbered in the order in which they are invoked.
CanInvoke(o) ==
  /\ ops[o].pc = "idle"
  /\ \A p \in Ops : p < o => ops[p].pc # "idle"

\* The operation o, invoked as kind k, ends: it returns ret or raises err.
Finish(o, k, ret, err) ==
  ops' = [ops EXCEPT ![o].kind = k, ![o].pc = "done", ![o].ret = ret, ![o].err = err]

\* The operation o, invoked as kind k on connection_id, ends at once.
Reject(o, k, connection_id, ret, err) ==
  ops' = [ops EXCEPT ![o].kind = k, ![o].connection_id = connection_id,
                     ![o].pc = "done", ![o].ret = ret, ![o].err = err]

\* AllDone firing on the first failure (fireOnOneErrback)
AllDone_FirstFailure(legs) ==
  \/ \A i \in DOMAIN legs : legs[i].st # "pending"
  \/ \E i \in DOMAIN legs : legs[i].st = "fail"

AllDone(legs) == \A i \in DOMAIN legs : legs[i].st # "pending"
AllOk(legs)   == \A i \in DOMAIN legs : legs[i].st = "ok"

\* ------------------------------------------------------------- the provider's table
\* protocols/nsi2/provider.py: the keys of the notification table
RESERVE_RESPONSE        == "reserve_response"
RESERVE_COMMIT_RESPONSE == "reserve_commit_response"
PROVISION_RESPONSE      == "provision_response"
TERMINATE_RESPONSE      == "terminate_response"

ResponseTypes ==
  {RESERVE_RESPONSE, RESERVE_COMMIT_RESPONSE, PROVISION_RESPONSE, TERMINATE_RESPONSE}

\* The keys (connection_id, response type) of self.notifications
Keys == ConnIds \X ResponseTypes

\* An NSI header: where to send the confirmation (empty: nowhere) and the
\* correlation id of the request.  NoHeader stands for an absent entry.
Header(reply_to, correlation_id) ==
  [reply_to |-> reply_to, correlation_id |-> correlation_id]
NoHeader == Header("", None)
ReplyTos == {"", "requester"}

\* The last handler called, the header it forwarded to provider_client and
\* what it returned.
LastCall(handler, key, header, result) ==
  [handler |-> handler, key |-> key, header |-> header, result |-> result]
NoLastCall == LastCall("none", << >>, NoHeader, "")

\* provider.py 35-39, __init__: an empty table.  registered counts the
\* writes of each key, forwarded the calls of provider_client for it; acks
\* are the Deferreds of service_provider.reserve that have not fired.
NewProvider ==
  [notifications |-> [k \in Keys |-> NoHeader],
   registered    |-> [k \in Keys |-> 0],
   forwarded     |-> [k \in Keys |-> 0],
   acks          |-> {},
   calls         |-> 0,
   last          |-> NoLastCall]

\* ------------------------------------------------------------- state machine
\* opennsa.state: one function per transition; each checks the persisted
\* state of its axis against the legal from-states, and persists the
\* to-state (compare-and-set on the state column).
Transitions ==
  [ reserveChecking  |-> [axis |-> "reservation_state", from |-> {INITIAL},
                          to |-> RESERVE_CHECKING],
    reserveHeld      |-> [axis |-> "reservation_state", from |-> {RESERVE_CHECKING},
                          to |-> RESERVE_HELD],
    reserveCommit    |-> [axis |-> "reservation_state", from |-> {RESERVE_HELD},
                          to |-> RESERVE_COMMITTING],
    reserved         |-> [axis |-> "reservation_state", from |-> {RESERVE_COMMITTING},
                          to |-> RESERVED],
    provisioning     |-> [axis |-> "provision_state", from |-> {SCHEDULED},
                          to |-> PROVISIONING],
    provisioned      |-> [axis |-> "provision_state", from |-> {PROVISIONING},
                          to |-> PROVISIONED],
    releasing        |-> [axis |-> "provision_state", from |-> {PROVISIONED},
                          to |-> RELEASING],
    scheduled        |-> [axis |-> "provision_state", from |-> {PROVISIONING, RELEASING},
                          to |-> SCHEDULED],
    terminating      |-> [axis |-> "lifecycle_state", from |-> {INITIAL, CREATED},
                          to |-> TERMINATING],
    terminated       |-> [axis |-> "lifecycle_state", from |-> {TERMINATING},
                          to |-> TERMINATED],
    terminatedFailed |-> [axis |-> "lifecycle_state",
                          from |-> {INITIAL, CREATED, TERMINATING},
                          to |-> TERMINATED_FAILED] ]

\* The transition t is legal on the persisted row.
Legal(row, t) == row[Transitions[t].axis] \in Transitions[t].from

\* The row after transition t.
Switched(row, t) == [row EXCEPT ![Transitions[t].axis] = Transitions[t].to]

\* state.<t>(conn): persist the to-state; StateTransitionError otherwise
Transition(o, t) ==
  LET id == ops[o].conn
  IN  IF Legal(conns[id], t)
        THEN conns' = [conns EXCEPT ![id] = Switched(conns[id], t)]
        ELSE conns' = conns

\* ------------------------------------------------------------- Reserve
\* aggregator.py 245-249: a supplied connection_id is never accepted
ReserveModify(o, connection_id) ==
  /\ IF \E id \in DOMAIN conns : conns[id].connection_id = connection_id
       THEN Reject(o, "Reserve", connection_id, None, "ConnectionExistsError")
       ELSE Reject(o, "Reserve", connection_id, None, "NotImplementedError")
  /\ UNCHANGED << conns, subs >>

\* TopologyChecks without the check of an STP connected to itself
TopologyChecks_NoSelfCheck(sp) ==
  /\ hasNetwork(Topo, sp.source_stp.network)
  /\ hasNetwork(Topo, sp.dest_stp.network)
  /\ sp.source_stp.network = SelfNetwork
       => hasEndpoint(Topo, SelfNetwork, sp.source_stp.port)
  /\ sp.dest_stp.network = SelfNetwork
       => hasEndpoint(Topo, SelfNetwork, sp.dest_stp.port)

\* aggregator.py 256-267: the checks made before anything is persisted
TopologyChecks(sp) ==
  /\ hasNetwork(Topo, sp.source_stp.network)
  /\ hasNetwork(Topo, sp.dest_stp.network)
  /\ sp.source_stp.network = SelfNetwork
       => hasEndpoint(Topo, SelfNetwork, sp.source_stp.port)
  /\ sp.dest_stp.network = SelfNetwork
       => hasEndpoint(Topo, SelfNetwork, sp.dest_stp.port)
  /\ ~ (sp.source_stp = sp.dest_stp /\ singleValue(sp.source_stp.labels))

\* aggregator.py 269-274: the new ServiceConnection
NewConnection(connection_id, sp) ==
  [connection_id     |-> connection_id,
   revision          |-> 0,
   reservation_state |-> INITIAL,
   provision_state   |-> SCHEDULED,
   activation_state  |-> INACTIVE,
   lifecycle_state   |-> INITIAL,
   source_stp        |-> sp.source_stp,
   dest_stp          |-> sp.dest_stp]

\* conn.save() of a new ServiceConnection: the row is inserted, or, when its
\* connection_id is already stored, may be refused by the store.
SaveConnection(o, row) ==
  \/ /\ conns' = Append(conns, row)
     /\ ops' = [ops EXCEPT ![o].kind = "Reserve", ![o].pc = "saved",
                           ![o].connection_id = row.connection_id,
                           ![o].conn = Len(conns) + 1, ![o].loaded = row]
  \/ /\ \E id \in DOMAIN conns : conns[id].connection_id = row.connection_id
     /\ Finish(o, "Reserve", None, "IntegrityError")
     /\ UNCHANGED conns

\* aggregator.py 251-275: draw a random connection_id (without looking at
\* the store), check the request, save the record.
ReserveNew(o, connection_id, sp) ==
  /\ IF ~ TopologyChecks(sp)
       THEN /\ Finish(o, "Reserve", None, "TopologyError")
            /\ UNCHANGED conns
       ELSE SaveConnection(o, NewConnection(connection_id, sp))
  /\ UNCHANGED subs

ReserveCall(o) ==
  /\ CanInvoke(o)
  /\ \/ \E connection_id \in ConnIds : ReserveModify(o, connection_id)
     \/ \E connection_id \in ConnIds, sp \in ServiceParams :
          ReserveNew(o, connection_id, sp)

\* sortByHops leaving the list as findPaths returned it
sortByHops_Unsorted(paths) == paths

\* paths.sort(key=lambda e : len(e.links())): a stable sort by hop count
RECURSIVE sortByHops(_)
insertByHops(path, sorted) ==
  LET before == { k \in 0..Len(sorted) :
                    \A m \in 1..k : Len(sorted[m]) <= Len(path) }
      k      == CHOOSE k \in before : \A m \in before : m <= k
  IN  SubSeq(sorted, 1, k) \o << path >> \o SubSeq(sorted, k + 1, Len(sorted))
sortByHops(paths) ==
  IF paths = << >> THEN << >>
  ELSE insertByHops(paths[Len(paths)], sortByHops(SubSeq(paths, 1, Len(paths) - 1)))

\* aggregator.py 326-346: the candidate paths of a saved connection, sorted;
\* the empty sequence when there is none or an STP does not resolve.  (The
\* log line 335 reads conn.nsa, taken to be an attribute of the record.)
candidatePaths(row) ==
  IF row.source_stp.network = SelfNetwork /\ row.dest_stp.network = SelfNetwork
    THEN << << Link(SelfNetwork, row.source_stp.port, row.dest_stp.port) >> >>
  ELSE IF ~ hasEndpoint(Topo, row.source_stp.network, row.source_stp.port)
          \/ ~ hasEndpoint(Topo, row.dest_stp.network, row.dest_stp.port)
    THEN << >>
  ELSE sortByHops(findPaths(Topo, row.source_stp, row.dest_stp, NoBandwidth))

\* selectedPath taking the last of the candidates
selectedPath_Last(row) == candidatePaths(row)[Len(candidatePaths(row))]

\* aggregator.py 348: selected_path = paths[0]
selectedPath(row) == candidatePaths(row)[1]

\* aggregator.py 355-366: one RESERVE call per link of the selected path
reserveLegs(selected_path) ==
  [i \in 1..Len(selected_path) |->
     [order_id     |-> i - 1,
      st           |-> "pending",
      cs           |-> IF selected_path[i].network = SelfNetwork
                         THEN NSI2_LOCAL ELSE NSI2_REMOTE,
      provider_nsa |-> getNetwork(Topo, SelfNetwork).managing_nsa,
      link         |-> selected_path[i]]]

\* aggregator.py 324-389: lock the reservation axis, select the path and
\* dispatch RESERVE for each of its links.
ReserveChecking(o) ==
  /\ ops[o].kind = "Reserve" /\ ops[o].pc = "saved"
  /\ Transition(o, "reserveChecking")
  /\ IF ~ Legal(conns[ops[o].conn], "reserveChecking")
       THEN Finish(o, "Reserve", None, "StateTransitionError")
     ELSE IF candidatePaths(conns[ops[o].conn]) = << >>
       THEN Finish(o, "Reserve", None, "TopologyError")
     ELSE ops' = [ops EXCEPT ![o].pc = "waiting", ![o].fanout = TRUE,
                    ![o].legs = reserveLegs(selectedPath(conns[ops[o].conn]))]
  /\ UNCHANGED subs

\* NewSubconnection numbering the legs from 1
NewSubconnection_OneBased(id, leg) ==
  [service_connection_id |-> id,
   order_id          |-> leg.order_id + 1,
   provider_nsa      |-> leg.provider_nsa,
   local_link        |-> (leg.provider_nsa = SelfNsa),
   reservation_state |-> RESERVE_HELD,
   provision_state   |-> SCHEDULED,
   activation_state  |-> INACTIVE,
   lifecycle_state   |-> INITIAL,
   link              |-> leg.link]

\* aggregator.py 369-384, reserveDone: the Subconnection saved for a leg
\* whose RESERVE succeeded
NewSubconnection(id, leg) ==
  [service_connection_id |-> id,
   order_id          |-> leg.order_id,
   provider_nsa      |-> leg.provider_nsa,
   local_link        |-> (leg.provider_nsa = SelfNsa),
   reservation_state |-> RESERVE_HELD,
   provision_state   |-> SCHEDULED,
   activation_state  |-> INACTIVE,
   lifecycle_state   |-> INITIAL,
   link              |-> leg.link]

\* A provider answers leg i of the Reserve o; on success reserveDone saves
\* the Subconnection.
ReserveLegDone(o, i) ==
  /\ ops[o].kind = "Reserve" /\ ops[o].pc = "waiting"
  /\ i \in DOMAIN ops[o].legs /\ ops[o].legs[i].st = "pending"
  /\ \E ok \in BOOLEAN :
       /\ ops' = [ops EXCEPT ![o].legs[i].st = IF ok THEN "ok" ELSE "fail"]
       /\ subs' = IF ok THEN subs \cup {NewSubconnection(ops[o].conn, ops[o].legs[i])}
                  ELSE subs
  /\ UNCHANGED conns

\* aggregator.py 410-419: rc.terminate() for every leg that was reserved
compensations(legs) ==
  [i \in DOMAIN legs |-> IF legs[i].st = "ok" THEN "pending" ELSE "none"]

\* aggregator.py 389-425: the DeferredList fired.  All legs reserved: the
\* parent becomes RESERVE_HELD and the reservation is returned.  Otherwise
\* the reserved legs are terminated (the calls are started, not awaited,
\* and state.terminatedFailed is chained to their DeferredList, which hands
\* it the list of results), and the call of _createAggregateFailure with
\* three arguments raises TypeError.
ReserveJoin(o) ==
  /\ ops[o].kind = "Reserve" /\ ops[o].pc = "waiting"
  /\ AllDone(ops[o].legs)
  /\ IF AllOk(ops[o].legs)
       THEN /\ Transition(o, "reserveHeld")
            /\ IF Legal(conns[ops[o].conn], "reserveHeld")
                 THEN Finish(o, "Reserve", ops[o].connection_id, "")
                 ELSE Finish(o, "Reserve", None, "StateTransitionError")
       ELSE /\ ops' = [ops EXCEPT ![o].pc = "done", ![o].err = "TypeError",
                                  ![o].comps = compensations(ops[o].legs)]
            /\ UNCHANGED conns
  /\ UNCHANGED subs

\* A compensating terminate of the Reserve o completes; its outcome is only
\* logged.  When the last one completes state.terminatedFailed is called
\* with the DeferredList's result list, which is no connection: no row is
\* changed.
CompensationDone(o, i) ==
  /\ ops[o].kind = "Reserve"
  /\ i \in DOMAIN ops[o].comps /\ ops[o].comps[i] = "pending"
  /\ \E ok \in BOOLEAN :
       ops' = [ops EXCEPT ![o].comps[i] = IF ok THEN "ok" ELSE "fail"]
  /\ UNCHANGED << conns, subs >>

\* ------------------------------------------------------------- lookups
\* database.ServiceConnection.findBy(connection_id=...): the matching rows
\* in row order
findBy(connection_id) == { id \in DOMAIN conns : conns[id].connection_id = connection_id }

\* aggregator.py 203-215, getConnection: connections[0], None when empty
getConnection(connection_id) ==
  IF findBy(connection_id) = {} THEN None
  ELSE CHOOSE id \in findBy(connection_id) : \A other \in findBy(connection_id) : id <= other

\* conn.subconnections.get()
subconnections(id) == { sc \in subs : sc.service_connection_id = id }

\* aggregator.py 218-235, forAllSubConnections: one call of the event's
\* handler per Subconnection of conn, local when the provider is this NSA
forAllSubConnections(id) ==
  LET scs == subconnections(id)
      nth(i) == CHOOSE sc \in scs :
                  Cardinality({ other \in scs : other.order_id < sc.order_id }) = i - 1
  IN  [i \in 1..Cardinality(scs) |->
         [order_id     |-> nth(i).order_id,
          st           |-> "pending",
          cs           |-> IF nth(i).provider_nsa = SelfNsa
                             THEN NSI2_LOCAL ELSE NSI2_REMOTE,
          provider_nsa |-> nth(i).provider_nsa,
          link         |-> nth(i).link]]

\* conn = yield self.getConnection(...): the operation holds the row
Loaded(o, k, id) ==
  ops' = [ops EXCEPT ![o].kind = k, ![o].pc = "loaded",
                     ![o].connection_id = conns[id].connection_id,
                     ![o].conn = id, ![o].loaded = conns[id]]

\* A sub-provider answers call i of the fan-out of operation o
\* (DeferredList(defs, consumeErrors=True) collects the outcome).
SubLegDone(o, i) ==
  /\ ops[o].kind \in {"ReserveCommit", "Terminate"} /\ ops[o].pc = "waiting"
  /\ i \in DOMAIN ops[o].legs /\ ops[o].legs[i].st = "pending"
  /\ \E ok \in BOOLEAN :
       ops' = [ops EXCEPT ![o].legs[i].st = IF ok THEN "ok" ELSE "fail"]
  /\ UNCHANGED << conns, subs >>

\* ------------------------------------------------------------- ReserveCommit
\* ReserveCommitCall without the ConnectionGoneError check
ReserveCommitCall_NoGoneCheck(o) ==
  /\ CanInvoke(o)
  /\ \E connection_id \in ConnIds :
       LET id == getConnection(connection_id)
       IN  IF id = None
             THEN Reject(o, "ReserveCommit", connection_id, None,
                         "ConnectionNonExistentError")
           ELSE Loaded(o, "ReserveCommit", id)
  /\ UNCHANGED << conns, subs >>

\* aggregator.py 435-438
ReserveCommitCall(o) ==
  /\ CanInvoke(o)
  /\ \E connection_id \in ConnIds :
       LET id == getConnection(connection_id)
       IN  IF id = None
             THEN Reject(o, "ReserveCommit", connection_id, None,
                         "ConnectionNonExistentError")
           ELSE IF conns[id].lifecycle_state = TERMINATED
             THEN Reject(o, "ReserveCommit", connection_id, None, "ConnectionGoneError")
           ELSE Loaded(o, "ReserveCommit", id)
  /\ UNCHANGED << conns, subs >>

\* ReserveCommitLock going on whatever state.reserveCommit answered
ReserveCommitLock_Unchecked(o) ==
  /\ ops[o].kind = "ReserveCommit" /\ ops[o].pc = "loaded"
  /\ Transition(o, "reserveCommit")
  /\ ops' = [ops EXCEPT ![o].pc = "locked"]
  /\ UNCHANGED subs

\* aggregator.py 440
ReserveCommitLock(o) ==
  /\ ops[o].kind = "ReserveCommit" /\ ops[o].pc = "loaded"
  /\ Transition(o, "reserveCommit")
  /\ IF Legal(conns[ops[o].conn], "reserveCommit")
       THEN ops' = [ops EXCEPT ![o].pc = "locked"]
       ELSE Finish(o, "ReserveCommit", None, "StateTransitionError")
  /\ UNCHANGED subs

\* aggregator.py 442-443
ReserveCommitDispatch(o) ==
  /\ ops[o].kind = "ReserveCommit" /\ ops[o].pc = "locked"
  /\ ops' = [ops EXCEPT ![o].pc = "waiting", ![o].fanout = TRUE,
                        ![o].legs = forAllSubConnections(ops[o].conn)]
  /\ UNCHANGED << conns, subs >>

\* ReserveCommitJoin returning without state.reserved
ReserveCommitJoin_NoPersist(o) ==
  /\ ops[o].kind = "ReserveCommit" /\ ops[o].pc = "waiting"
  /\ AllDone(ops[o].legs)
  /\ IF AllOk(ops[o].legs)
       THEN Finish(o, "ReserveCommit", ops[o].connection_id, "")
       ELSE Finish(o, "ReserveCommit", None, "NotImplementedError")
  /\ UNCHANGED << conns, subs >>

\* aggregator.py 445-453
ReserveCommitJoin(o) ==
  /\ ops[o].kind = "ReserveCommit" /\ ops[o].pc = "waiting"
  /\ AllDone(ops[o].legs)
  /\ IF AllOk(ops[o].legs)
       THEN /\ Transition(o, "reserved")
            /\ IF Legal(conns[ops[o].conn], "reserved")
                 THEN Finish(o, "ReserveCommit", ops[o].connection_id, "")
                 ELSE Finish(o, "ReserveCommit", None, "StateTransitionError")
       ELSE /\ Finish(o, "ReserveCommit", None, "NotImplementedError")
            /\ UNCHANGED conns
  /\ UNCHANGED subs

\* ------------------------------------------------------------- Terminate
\* TerminateCall without the early return on a TERMINATED connection
TerminateCall_NoEarlyReturn(o) ==
  /\ CanInvoke(o)
  /\ \E connection_id \in ConnIds :
       LET id == getConnection(connection_id)
       IN  IF id = None
             THEN Reject(o, "Terminate", connection_id, None,
                         "ConnectionNonExistentError")
           ELSE Loaded(o, "Terminate", id)
  /\ UNCHANGED << conns, subs >>

\* aggregator.py 552-555
TerminateCall(o) ==
  /\ CanInvoke(o)
  /\ \E connection_id \in ConnIds :
       LET id == getConnection(connection_id)
       IN  IF id = None
             THEN Reject(o, "Terminate", connection_id, None,
                         "ConnectionNonExistentError")
           ELSE IF conns[id].lifecycle_state = TERMINATED
             THEN Reject(o, "Terminate", connection_id, connection_id, "")
           ELSE Loaded(o, "Terminate", id)
  /\ UNCHANGED << conns, subs >>

\* aggregator.py 557
TerminateLock(o) ==
  /\ ops[o].kind = "Terminate" /\ ops[o].pc = "loaded"
  /\ Transition(o, "terminating")
  /\ IF Legal(conns[ops[o].conn], "terminating")
       THEN ops' = [ops EXCEPT ![o].pc = "locked"]
       ELSE Finish(o, "Terminate", None, "StateTransitionError")
  /\ UNCHANGED subs

\* aggregator.py 559-561
TerminateDispatch(o) ==
  /\ ops[o].kind = "Terminate" /\ ops[o].pc = "locked"
  /\ ops' = [ops EXCEPT ![o].pc = "waiting", ![o].fanout = TRUE,
                        ![o].legs = forAllSubConnections(ops[o].conn)]
  /\ UNCHANGED << conns, subs >>

\* aggregator.py 562-575: on a failed leg the log line reads
\* self.connection_id, which the Aggregator does not have
TerminateJoin(o) ==
  /\ ops[o].kind = "Terminate" /\ ops[o].pc = "waiting"
  /\ AllDone(ops[o].legs)
  /\ IF AllOk(ops[o].legs)
       THEN /\ Transition(o, "terminated")
            /\ IF Legal(conns[ops[o].conn], "terminated")
                 THEN Finish(o, "Terminate", ops[o].connection_id, "")
                 ELSE Finish(o, "Terminate", None, "StateTransitionError")
       ELSE /\ Finish(o, "Terminate", None, "AttributeError")
            /\ UNCHANGED conns
  /\ UNCHANGED subs

\* ------------------------------------------------------------- Provision, Release
\* aggregator.py 456-517: provision never binds conn; reading it at line
\* 496 raises NameError before any transition or dispatch
Provision(o) ==
  /\ CanInvoke(o)
  /\ Finish(o, "Provision", None, "NameError")
  /\ UNCHANGED << conns, subs >>

\* aggregator.py 520-542: release reads self.state, which the Aggregator
\* does not have
Release(o) ==
  /\ CanInvoke(o)
  /\ Finish(o, "Release", None, "AttributeError")
  /\ UNCHANGED << conns, subs >>

\* ------------------------------------------------------------- specification
\* The store is a database that outlives the aggregator process.  A
\* connection an earlier Reserve(A:a1 -> A:a2) left reserved: the rows that
\* ReserveCall, ReserveChecking, ReserveLegDone and ReserveJoin write.
HeldParams == [source_stp |-> STP("A", "a1", {1}), dest_stp |-> STP("A", "a2", {1})]

HeldConnection ==
  Switched(Switched(NewConnection(CHOOSE id \in ConnIds : \A other \in ConnIds : id <= other,
                                  HeldParams),
                    "reserveChecking"), "reserveHeld")

HeldSubconnections ==
  LET legs == reserveLegs(selectedPath(HeldConnection))
  IN  { NewSubconnection(Len(<< HeldConnection >>), [legs[i] EXCEPT !.st = "ok"]) :
          i \in DOMAIN legs }

\* The aggregator is constructed on an empty store, or on the store with
\* that connection; no operation has been invoked.
Init ==
  /\ \/ conns = << >> /\ subs = {}
     \/ conns = << HeldConnection >> /\ subs = HeldSubconnections
  /\ ops = [o \in Ops |-> IdleOp]
  /\ call = NoCall
  /\ provider = NewProvider

Next ==
  \/ \E o \in Ops : ReserveCall(o) /\ UNCHANGED << call, provider >>
  \/ \E o \in Ops : ReserveChecking(o) /\ UNCHANGED << call, provider >>
  \/ \E o \in Ops : \E i \in DOMAIN ops[o].legs : ReserveLegDone(o, i) /\ UNCHANGED << call, provider >>
  \/ \E o \in Ops : ReserveJoin(o) /\ UNCHANGED << call, provider >>
  \/ \E o \in Ops : \E i \in DOMAIN ops[o].comps : CompensationDone(o, i) /\ UNCHANGED << call, provider >>
  \/ \E o \in Ops : ReserveCommitCall(o) /\ UNCHANGED << call, provider >>
  \/ \E o \in Ops : ReserveCommitLock(o) /\ UNCHANGED << call, provider >>
  \/ \E o \in Ops : ReserveCommitDispatch(o) /\ UNCHANGED << call, provider >>
  \/ \E o \in Ops : ReserveCommitJoin(o) /\ UNCHANGED << call, provider >>
  \/ \E o \in Ops : TerminateCall(o) /\ UNCHANGED << call, provider >>
  \/ \E o \in Ops : TerminateLock(o) /\ UNCHANGED << call, provider >>
  \/ \E o \in Ops : TerminateDispatch(o) /\ UNCHANGED << call, provider >>
  \/ \E o \in Ops : TerminateJoin(o) /\ UNCHANGED << call, provider >>
  \/ \E o \in Ops : \E i \in DOMAIN ops[o].legs : SubLegDone(o, i) /\ UNCHANGED << call, provider >>
  \/ \E o \in Ops : Provision(o) /\ UNCHANGED << call, provider >>
  \/ \E o \in Ops : Release(o) /\ UNCHANGED << call, provider >>

Spec == Init /\ [][Next]_vars

\* ------------------------------------------------------------- the path finder alone
\* The topologies findPaths is called on.
Topologies ==
  { Topo, Ring, RingReversed, Vlans("S.ets"), Vlans("netherlight.ets"), Capacities }

\* The STPs of every port of T, and one of a port that T does not have.
StpsOf(T) ==
  UNION { { STP(T[n].name, T[n].endpoints[i].port, {1}) : i \in DOMAIN T[n].endpoints }
          : n \in DOMAIN T }
    \cup { STP(T[Len(T)].name, "zz", {1}) }

\* The bandwidth arguments findPaths is called with on T.
BandwidthsOf(T) ==
  IF T = Capacities THEN { NoBandwidth, Bandwidth(None), Bandwidth(8) }
  ELSE { NoBandwidth }

\* A call findPaths(source_stp, dest_stp, bandwidth) on a topology
PathCalls ==
  UNION { { [fn |-> "findPaths", pc |-> "called", topology |-> T,
             source_stp |-> s, dest_stp |-> d, bandwidth |-> b,
             paths |-> << >>, err |-> ""]
            : s \in StpsOf(T), d \in StpsOf(T), b \in BandwidthsOf(T) }
          : T \in Topologies }

\* The networks and port names canConnect is called on: one network that
\* is not VLAN capable, one that is, and the two that rewrite VLANs.
ConnectNetworks == {"A", "S.ets", "northernlight.ets", "netherlight.ets"}
PortNames       == {"s0", "s1", "s2", "s4", "s5", "sx", "d1", "dx"}

\* A call canConnect(source_stp, dest_stp) on two ports of one network
ConnectCalls ==
  { [fn |-> "canConnect", pc |-> "called", network |-> n,
     source_port |-> s, dest_port |-> d, result |-> FALSE]
    : n \in ConnectNetworks, s \in PortNames, d \in PortNames }

PathInit ==
  /\ conns = << >> /\ subs = {}
  /\ ops = [o \in Ops |-> IdleOp]
  /\ call \in PathCalls \cup ConnectCalls
  /\ provider = NewProvider

\* topology.py 44-75: TopologyError when an STP does not resolve, else the
\* routes
FindPaths ==
  /\ call.fn = "findPaths" /\ call.pc = "called"
  /\ IF ~ hasEndpoint(call.topology, call.source_stp.network, call.source_stp.port)
          \/ ~ hasEndpoint(call.topology, call.dest_stp.network, call.dest_stp.port)
       THEN call' = [call EXCEPT !.pc = "raised", !.err = "TopologyError"]
       ELSE call' = [call EXCEPT !.pc = "returned",
                       !.paths = findPaths(call.topology, call.source_stp,
                                           call.dest_stp, call.bandwidth)]
  /\ UNCHANGED << conns, subs, ops, provider >>

\* aggregator.py 340-346: what reserve does with the list findPaths returned
SortPaths ==
  /\ call.fn = "findPaths" /\ call.pc = "returned"
  /\ IF call.paths = << >>
       THEN call' = [call EXCEPT !.pc = "raised", !.err = "TopologyError"]
       ELSE call' = [call EXCEPT !.pc = "sorted", !.paths = sortByHops(call.paths)]
  /\ UNCHANGED << conns, subs, ops, provider >>

\* topology.py 91-99: canConnect(source_stp, dest_stp) returns
CanConnect ==
  /\ call.fn = "canConnect" /\ call.pc = "called"
  /\ call' = [call EXCEPT !.pc = "returned",
                 !.result = canConnect(Link(call.network, call.source_port,
                                            call.dest_port))]
  /\ UNCHANGED << conns, subs, ops, provider >>

PathNext == FindPaths \/ SortPaths \/ CanConnect

PathSpec == PathInit /\ [][PathNext]_vars

\* ------------------------------------------------------------- the error builder alone
\* An exception, raised by the function itself or returned as its value.
Raised(type)           == [raised |-> TRUE, type |-> type, form |-> "", msg |-> ""]
Error(type, form, msg) == [raised |-> FALSE, type |-> type, form |-> form, msg |-> msg]

\* aggregator.py 135-152: the first statement reads self, which is bound in
\* no scope of this module-level function.
buildErrorMessage(results, action) == Raised("NameError")

\* aggregator.py 155-166
createAggregateException(results, action, default_error) ==
  LET failed(r) == ~ r.success
      failures  == SelectSeq(results, failed)
  IN  IF Len(failures) = 0
        THEN Error("InternalServerError", "plain",
                   "_createAggregateFailure called with no failures")
      ELSE IF Len(results) = 1 /\ Len(failures) = 1
        THEN Error(failures[1].type, "plain", failures[1].msg)
      ELSE LET error_msg == buildErrorMessage(results, action)
           IN  IF error_msg.raised THEN error_msg
               ELSE Error(default_error, error_msg.form, error_msg.msg)

\* aggregator.py 169-185
createAggregateFailure(results, action) ==
  createAggregateException(results, action, "InternalServerError")

\* The (success, value) pairs a DeferredList hands on for one leg: a leg
\* that succeeded, or the Failure of one that did not.
Outcomes ==
  { [success |-> TRUE, type |-> "", msg |-> ""] }
    \cup { [success |-> FALSE, type |-> "LegError", msg |-> m] : m \in {"e1", "e2"} }

ResultLists == UNION { [1..n -> Outcomes] : n \in 1..MaxResults }

ErrorCalls ==
  { [fn |-> "createAggregateFailure", pc |-> "called", results |-> results,
     action |-> action, error |-> Error("", "", "")]
    : results \in ResultLists, action \in {"reservations", "provisions", "releases"} }

ErrorInit ==
  /\ conns = << >> /\ subs = {}
  /\ ops = [o \in Ops |-> IdleOp]
  /\ call \in ErrorCalls
  /\ provider = NewProvider

\* err = _createAggregateFailure(results, action)
CreateAggregateFailure ==
  /\ call.fn = "createAggregateFailure" /\ call.pc = "called"
  /\ LET err == createAggregateFailure(call.results, call.action)
     IN  call' = [call EXCEPT !.pc = IF err.raised THEN "raised" ELSE "returned",
                              !.error = err]
  /\ UNCHANGED << conns, subs, ops, provider >>

ErrorNext == CreateAggregateFailure

ErrorSpec == ErrorInit /\ [][ErrorNext]_vars

\* ------------------------------------------------------------- the protocol provider
\* One more handler of the Provider can be called.
ProviderCallable == provider.calls < MaxCalls

\* if nsi_header.reply_to: self.notifications[key] = nsi_header
register(p, key, nsi_header) ==
  IF nsi_header.reply_to # ""
    THEN [p EXCEPT !.notifications[key] = nsi_header, !.registered[key] = @ + 1]
    ELSE p

\* pop leaving the entry in the table
pop_Keep(notifications, key) == notifications

\* self.notifications.pop(key): the table without the entry
pop(notifications, key) == [notifications EXCEPT ![key] = NoHeader]

\* A request handler that registers before it calls the service provider
request(handler, key, reply_to) ==
  /\ ProviderCallable
  /\ LET nsi_header == Header(reply_to, provider.calls + 1)
     IN  provider' = [register(provider, key, nsi_header) EXCEPT
                        !.calls = @ + 1,
                        !.last = LastCall(handler, key, NoHeader, "service_provider")]
  /\ UNCHANGED << conns, subs, ops, call >>

\* A confirmation handler: pop the entry and forward to provider_client
\* with its header; KeyError when there is none: defer.succeed(None).
confirmed(handler, key) ==
  /\ ProviderCallable
  /\ IF provider.notifications[key] # NoHeader
       THEN provider' = [provider EXCEPT
                           !.notifications = pop(provider.notifications, key),
                           !.forwarded[key] = @ + 1,
                           !.calls = @ + 1,
                           !.last = LastCall(handler, key, provider.notifications[key],
                                             "provider_client")]
       ELSE provider' = [provider EXCEPT
                           !.calls = @ + 1,
                           !.last = LastCall(handler, key, NoHeader, "None")]
  /\ UNCHANGED << conns, subs, ops, call >>

\* provider.py 42-54, reserve: the service provider is called; setNotify is
\* the callback of its Deferred, which will fire with the connection_id
\* assigned.
Provider_reserve(connection_id, reply_to) ==
  /\ ProviderCallable
  /\ LET nsi_header == Header(reply_to, provider.calls + 1)
     IN  provider' = [provider EXCEPT
                        !.acks = @ \cup { [connection_id |-> connection_id,
                                           nsi_header |-> nsi_header] },
                        !.calls = @ + 1,
                        !.last = LastCall("reserve", << connection_id, RESERVE_RESPONSE >>,
                                          NoHeader, "service_provider")]
  /\ UNCHANGED << conns, subs, ops, call >>

\* provider.py 47-50, setNotify: the Deferred of a reserve fires
Provider_setNotify(ack) ==
  /\ ack \in provider.acks
  /\ provider' = [register(provider, << ack.connection_id, RESERVE_RESPONSE >>,
                           ack.nsi_header)
                    EXCEPT !.acks = @ \ {ack}]
  /\ UNCHANGED << conns, subs, ops, call >>

\* provider.py 52-54: the Deferred of a reserve fails; setNotify is not
\* called
Provider_reserveFailed(ack) ==
  /\ ack \in provider.acks
  /\ provider' = [provider EXCEPT !.acks = @ \ {ack}]
  /\ UNCHANGED << conns, subs, ops, call >>

\* provider.py 57-63
Provider_reserveConfirmed(connection_id) ==
  confirmed("reserveConfirmed", << connection_id, RESERVE_RESPONSE >>)

\* provider.py 66-70
Provider_reserveCommit(connection_id, reply_to) ==
  request("reserveCommit", << connection_id, RESERVE_COMMIT_RESPONSE >>, reply_to)

\* provider.py 73-80
Provider_reserveCommitConfirmed(connection_id) ==
  confirmed("reserveCommitConfirmed", << connection_id, RESERVE_COMMIT_RESPONSE >>)

\* provider.py 88-92
Provider_provision(connection_id, reply_to) ==
  request("provision", << connection_id, PROVISION_RESPONSE >>, reply_to)

\* provider.py 95-104
Provider_provisionConfirmed(connection_id) ==
  confirmed("provisionConfirmed", << connection_id, PROVISION_RESPONSE >>)

\* provider.py 107-109, release: the table is not touched
Provider_release(connection_id) ==
  /\ ProviderCallable
  /\ provider' = [provider EXCEPT
                    !.calls = @ + 1,
                    !.last = LastCall("release", << connection_id >>, NoHeader,
                                      "service_provider")]
  /\ UNCHANGED << conns, subs, ops, call >>

\* provider.py 112-116
Provider_terminate(connection_id, reply_to) ==
  request("terminate", << connection_id, TERMINATE_RESPONSE >>, reply_to)

\* provider.py 119-128
Provider_terminateConfirmed(connection_id) ==
  confirmed("terminateConfirmed", << connection_id, TERMINATE_RESPONSE >>)

\* A Provider constructed over a service provider that no request has
\* reached.
ProviderInit ==
  /\ conns = << >> /\ subs = {}
  /\ ops = [o \in Ops |-> IdleOp]
  /\ call = NoCall
  /\ provider = NewProvider

ProviderNext ==
  \/ \E connection_id \in ConnIds, reply_to \in ReplyTos :
       Provider_reserve(connection_id, reply_to)
  \/ \E ack \in provider.acks : Provider_setNotify(ack)
  \/ \E ack \in provider.acks : Provider_reserveFailed(ack)
  \/ \E connection_id \in ConnIds : Provider_reserveConfirmed(connection_id)
  \/ \E connection_id \in ConnIds, reply_to \in ReplyTos :
       Provider_reserveCommit(connection_id, reply_to)
  \/ \E connection_id \in ConnIds : Provider_reserveCommitConfirmed(connection_id)
  \/ \E connection_id \in ConnIds, reply_to \in ReplyTos :
       Provider_provision(connection_id, reply_to)
  \/ \E connection_id \in ConnIds : Provider_provisionConfirmed(connection_id)
  \/ \E connection_id \in ConnIds : Provider_release(connection_id)
  \/ \E connection_id \in ConnIds, reply_to \in ReplyTos :
       Provider_terminate(connection_id, reply_to)
  \/ \E connection_id \in ConnIds : Provider_terminateConfirmed(connection_id)

ProviderSpec == ProviderInit /\ [][ProviderNext]_vars

\* ------------------------------------------------------------- properties
\* The operation o has got past the transition that locks its axis.
Passed(o) == ops[o].pc \in {"locked", "waiting"} \/ ops[o].fanout

\* The operation o is running between its lock and its join.
InFanout(o) == ops[o].pc \in {"locked", "waiting"}

\* The transition with which an operation of kind k locks the connection.
LockOf(k) ==
  IF k = "ReserveCommit" THEN "reserveCommit"
  ELSE IF k = "Terminate" THEN "terminating" ELSE "reserveChecking"

\* o and p are two operations of the same kind on the same loaded row.
SameAxisPair(o, p) ==
  /\ o # p
  /\ ops[o].kind \in {"ReserveCommit", "Terminate"}
  /\ ops[p].kind = ops[o].kind
  /\ ops[o].conn # None
  /\ ops[p].conn = ops[o].conn

C2_NoTwoFanouts ==
  \A o \in Ops, p \in Ops :
    (o # p /\ ops[o].conn # None /\ ops[p].conn = ops[o].conn)
      => ~ (InFanout(o) /\ InFanout(p))

\* The Reserve o has ended after a leg failed, and its compensations too.
ReserveFailedAtLeg(o) ==
  /\ ops[o].kind = "Reserve" /\ ops[o].pc = "done"
  /\ \E i \in DOMAIN ops[o].legs : ops[o].legs[i].st = "fail"

CompensationsOver(o) == \A i \in DOMAIN ops[o].comps : ops[o].comps[i] # "pending"

\* C3: after a Reserve with a failed leg has completed, none of its
\* Subconnections is RESERVE_HELD and the parent is TERMINATED_FAILED.
C3_FailedReserveCleansUp ==
  \A o \in Ops :
    (ReserveFailedAtLeg(o) /\ CompensationsOver(o)) =>
      /\ \A sc \in subconnections(ops[o].conn) : sc.reservation_state # RESERVE_HELD
      /\ conns[ops[o].conn].lifecycle_state = TERMINATED_FAILED

\* C4: a Reserve with a failed leg compensates exactly the legs that were
\* reserved, and has ended (the error has reached the requester) only when
\* every one of those compensations has completed.
C4_ErrorAfterCompensation ==
  \A o \in Ops :
    ReserveFailedAtLeg(o) =>
      /\ \A i \in DOMAIN ops[o].legs :
           (ops[o].comps[i] # "none") <=> (ops[o].legs[i].st = "ok")
      /\ CompensationsOver(o)

\* C5: a step in which a Reserve ends with every leg reserved leaves one
\* Subconnection per link of the selected path, RESERVE_HELD and numbered by
\* the link's index, the parent RESERVE_HELD, and returns the connection id.
C5_ReserveSucceeds ==
  [][ \A o \in Ops :
        ( /\ ops[o].kind = "Reserve" /\ ops[o].pc = "waiting"
          /\ ops'[o].pc = "done"
          /\ AllOk(ops[o].legs) )
        => LET id   == ops[o].conn
               path == selectedPath(conns[id])
           IN  /\ ops'[o].err = ""
               /\ ops'[o].ret = conns'[id].connection_id
               /\ ops'[o].ret \in ConnIds
               /\ conns'[id].reservation_state = RESERVE_HELD
               /\ Cardinality({ sc \in subs' : sc.service_connection_id = id }) = Len(path)
               /\ \A i \in 1..Len(path) :
                    \E sc \in subs' :
                      /\ sc.service_connection_id = id
                      /\ sc.order_id = i - 1
                      /\ sc.link = path[i]
                      /\ sc.reservation_state = RESERVE_HELD
    ]_vars

\* A two-link Reserve has ended with both legs reserved.
C5_Witness ==
  \E o \in Ops :
    /\ ops[o].kind = "Reserve" /\ ops[o].pc = "done" /\ ops[o].err = ""
    /\ Len(ops[o].legs) = 2
    /\ Cardinality(subconnections(ops[o].conn)) = 2

\* C6: a Terminate invoked on a connection that is TERMINATED returns the
\* connection id at once: no row changes and nothing is dispatched.
C6_TerminateIdempotent ==
  [][ \A o \in Ops :
        ( /\ ops[o].pc = "idle" /\ ops'[o].kind = "Terminate"
          /\ getConnection(ops'[o].connection_id) # None
          /\ conns[getConnection(ops'[o].connection_id)].lifecycle_state = TERMINATED )
        => /\ ops'[o].pc = "done"
           /\ ops'[o].ret = ops'[o].connection_id
           /\ ops'[o].err = ""
           /\ ops'[o].legs = NoLegs /\ ~ ops'[o].fanout
           /\ conns' = conns /\ subs' = subs
    ]_vars

\* A Terminate has returned at once on a TERMINATED connection.
C6_Witness ==
  \E o \in Ops :
    /\ ops[o].kind = "Terminate" /\ ops[o].pc = "done"
    /\ ops[o].conn = None /\ ops[o].ret # None
    /\ conns[getConnection(ops[o].connection_id)].lifecycle_state = TERMINATED

C8_NoPartialCommit ==
  /\ \A o \in Ops :
       ( /\ ops[o].kind = "ReserveCommit" /\ ops[o].pc = "done"
         /\ \E i \in DOMAIN ops[o].legs : ops[o].legs[i].st = "fail" )
       => /\ ops[o].err # ""
          /\ conns[ops[o].conn].reservation_state # RESERVED
          /\ conns[ops[o].conn].revision = 0
  /\ \A id \in DOMAIN conns :
       conns[id].reservation_state = RESERVED =>
         /\ conns[id].revision > 0
         /\ \E o \in Ops : /\ ops[o].kind = "ReserveCommit" /\ ops[o].conn = id
                           /\ ops[o].pc = "done" /\ AllOk(ops[o].legs)

\* The transition the operation o attempts in its next step, "" if none.
Attempt(o) ==
  LET op == ops[o]
  IN  IF op.kind = "Reserve" /\ op.pc = "saved" THEN "reserveChecking"
      ELSE IF op.kind = "Reserve" /\ op.pc = "waiting"
              /\ AllDone(op.legs) /\ AllOk(op.legs) THEN "reserveHeld"
      ELSE IF op.kind = "ReserveCommit" /\ op.pc = "loaded" THEN "reserveCommit"
      ELSE IF op.kind = "ReserveCommit" /\ op.pc = "waiting"
              /\ AllDone(op.legs) /\ AllOk(op.legs) THEN "reserved"
      ELSE IF op.kind = "Terminate" /\ op.pc = "loaded" THEN "terminating"
      ELSE IF op.kind = "Terminate" /\ op.pc = "waiting"
              /\ AllDone(op.legs) /\ AllOk(op.legs) THEN "terminated"
      ELSE ""

\* The documented (axis, from, to) of the transition functions
Documented ==
  [ reserveChecking |-> << "reservation_state", {INITIAL}, RESERVE_CHECKING >>,
    reserveHeld     |-> << "reservation_state", {RESERVE_CHECKING}, RESERVE_HELD >>,
    reserveCommit   |-> << "reservation_state", {RESERVE_HELD}, RESERVE_COMMITTING >>,
    reserved        |-> << "reservation_state", {RESERVE_COMMITTING}, RESERVED >>,
    terminating     |-> << "lifecycle_state", {INITIAL, CREATED}, TERMINATING >>,
    terminated      |-> << "lifecycle_state", {TERMINATING}, TERMINATED >> ]

C10_ConnectionIdsUnique ==
  /\ \A id \in DOMAIN conns, other \in DOMAIN conns :
       conns[id].connection_id = conns[other].connection_id => id = other
  /\ \A o \in Ops : ops[o].err # "IntegrityError"

\* The states of each axis, the least advanced first (spec 4.2).
Advance ==
  [ reservation_state |-> << INITIAL, RESERVE_CHECKING, RESERVE_HELD,
                             RESERVE_COMMITTING, RESERVED >>,
    provision_state   |-> << SCHEDULED, PROVISIONING, PROVISIONED, RELEASING >>,
    activation_state  |-> << INACTIVE >>,
    lifecycle_state   |-> << INITIAL, CREATED, TERMINATING, TERMINATED >> ]

Axes == DOMAIN Advance

Rank(axis, st) == CHOOSE i \in DOMAIN Advance[axis] : Advance[axis][i] = st

\* The least advanced state on axis of the Subconnections scs.
LeastAdvanced(axis, scs) ==
  CHOOSE st \in { sc[axis] : sc \in scs } :
    \A sc \in scs : Rank(axis, st) <= Rank(axis, sc[axis])

\* Every operation invoked on the row id has ended, and ended well.
Settled(id) ==
  \A o \in Ops : ops[o].conn = id => (ops[o].pc = "done" /\ ops[o].err = "")

\* C11: when every operation on a connection has ended (here: ended without
\* an error), each state field of the parent equals the least advanced of
\* the same field of its Subconnections.
C11_ParentIsLeastAdvanced ==
  \A id \in DOMAIN conns :
    (Settled(id) /\ subconnections(id) # {}) =>
      \A axis \in Axes :
        conns[id][axis] = LeastAdvanced(axis, subconnections(id))

\* The path p leads from s to d over the pairings of T.
WellFormed(T, s, d, p) ==
  /\ p # << >>
  /\ p[1].network = s.network /\ p[1].src_port = s.port
  /\ p[Len(p)].network = d.network /\ p[Len(p)].dst_port = d.port
  /\ \A i \in 1..(Len(p) - 1) :
       /\ hasEndpoint(T, p[i].network, p[i].dst_port)
       /\ getEndpoint(T, p[i].network, p[i].dst_port).dest_stp
            = Peer(p[i + 1].network, p[i + 1].src_port)

\* findPaths has returned.
Returned == call.fn = "findPaths" /\ call.pc = "returned"

\* C12: every path findPaths returned starts at the source port, ends at the
\* destination port, and each of its links ends at the port paired with the
\* port the next link starts at.
C12_PathsWellFormed ==
  Returned =>
    \A k \in DOMAIN call.paths :
      WellFormed(call.topology, call.source_stp, call.dest_stp, call.paths[k])

\* findPaths has returned a path of three links across the ring.
C12_Witness ==
  /\ Returned
  /\ \E k \in DOMAIN call.paths : Len(call.paths[k]) = 3

\* C13: no path findPaths returned has two links in the same network, and
\* the search ends for every call: while findPaths has been called and not
\* returned, its return (or its TopologyError) can be computed.
C13_NoNetworkTwice ==
  /\ Returned =>
       \A k \in DOMAIN call.paths :
         \A i \in DOMAIN call.paths[k], j \in DOMAIN call.paths[k] :
           call.paths[k][i].network = call.paths[k][j].network => i = j
  /\ (call.fn = "findPaths" /\ call.pc = "called") => ENABLED FindPaths

\* findPaths has returned from a search on a ring that met a pairing which
\* leads back to a visited network.
C13_Witness ==
  /\ Returned
  /\ call.topology \in {Ring, RingReversed}
  /\ call.source_stp.network # call.dest_stp.network
  /\ call.paths # << >>

\* The list of paths is in ascending order of hop count.
Ascending(paths) ==
  \A i \in DOMAIN paths, j \in DOMAIN paths :
    i < j => Len(paths[i]) <= Len(paths[j])

\* C14 as stated: the list findPaths returned is sorted by hop count.
C14_FindPathsSorted == Returned => Ascending(call.paths)

\* C14: findPaths returns the routes in the order its search found them; the
\* list reserve selects from, after its paths.sort, holds the same routes in
\* ascending order of hop count.
C14_SortedBeforeSelection ==
  (call.fn = "findPaths" /\ call.pc = "sorted") =>
    LET found == findPaths(call.topology, call.source_stp, call.dest_stp,
                           call.bandwidth)
    IN  /\ Ascending(call.paths)
        /\ Len(call.paths) = Len(found)
        /\ \A k \in DOMAIN found :
             Cardinality({ m \in DOMAIN found : found[m] = found[k] })
               = Cardinality({ m \in DOMAIN call.paths : call.paths[m] = found[k] })

\* reserve has sorted a list that findPaths returned with a longer route
\* before a shorter one.
C14_Witness ==
  /\ call.fn = "findPaths" /\ call.pc = "sorted"
  /\ ~ Ascending(findPaths(call.topology, call.source_stp, call.dest_stp,
                           call.bandwidth))

\* findPaths(A:a1, C:c1) on the ring has returned.
RingQuery ==
  /\ Returned
  /\ call.topology = Ring
  /\ call.source_stp = STP("A", "a1", {1})
  /\ call.dest_stp = STP("C", "c1", {1})

RouteABC ==
  << Link("A", "a1", "ax"), Link("B", "bx", "by"), Link("C", "cy", "c1") >>
RouteAC ==
  << Link("A", "a1", "az"), Link("C", "cz", "c1") >>

\* C15 as stated: on the ring findPaths(A:a1, C:c1) returns the one route
\* A->B->C and no route over the pairing A:az/C:cz.
C15_RingOneRoute == RingQuery => call.paths = << RouteABC >>

\* C15: on the ring findPaths(A:a1, C:c1) returns two routes, A->B->C and
\* then the direct A->C over the pairing A:az/C:cz; no route goes on from C.
C15_RingTwoRoutes == RingQuery => call.paths = << RouteABC, RouteAC >>

\* findPaths(A:a1, C:c1) has returned on the ring with the direct route.
C15_Witness ==
  /\ RingQuery
  /\ \E k \in DOMAIN call.paths : call.paths[k] = RouteAC

\* C16: a Provision that ended with an error ended with the error of its
\* lookup or of its first transition, or with ProvisionError after the
\* releases of the provisioned legs were over and the parent was back at
\* SCHEDULED.
C16_ProvisionCompensates ==
  \A o \in Ops :
    (ops[o].kind = "Provision" /\ ops[o].pc = "done" /\ ops[o].err # "") =>
      /\ ops[o].err \in {"ConnectionNonExistentError", "StateTransitionError",
                         "ProvisionError"}
      /\ ops[o].err = "ProvisionError" =>
           /\ CompensationsOver(o)
           /\ conns[ops[o].conn].provision_state = SCHEDULED

\* C17: a Release that has ended either fanned RELEASE out to the
\* Subconnections of the loaded connection and left it SCHEDULED, or ended
\* with the error of its lookup or first transition, or with ReleaseError
\* and the parent not SCHEDULED.
C17_ReleaseReleases ==
  \A o \in Ops :
    (ops[o].kind = "Release" /\ ops[o].pc = "done") =>
      /\ ops[o].err \in {"", "ConnectionNonExistentError", "StateTransitionError",
                         "ReleaseError"}
      /\ ops[o].err = "" =>
           /\ ops[o].fanout
           /\ conns[ops[o].conn].provision_state = SCHEDULED
      /\ ops[o].err = "ReleaseError" =>
           conns[ops[o].conn].provision_state # SCHEDULED

\* The legs of the results that failed
FailedLegs(results) == { i \in DOMAIN results : ~ results[i].success }

\* C18: the error built from the results of a fan-out in which exactly one
\* leg failed carries that leg's message unchanged, however many legs there
\* were; an aggregate message is built only from two or more failures.
C18_SingleFailureVerbatim ==
  (call.fn = "createAggregateFailure" /\ call.pc # "called") =>
    /\ Cardinality(FailedLegs(call.results)) = 1 =>
         /\ call.pc = "returned"
         /\ call.error.form = "plain"
         /\ \A i \in FailedLegs(call.results) : call.error.msg = call.results[i].msg
    /\ call.error.form = "aggregate" => Cardinality(FailedLegs(call.results)) >= 2

\* C19: a Reserve with a failed leg, one of whose compensating terminates
\* failed too, has raised ConnectionCreateError and left the parent
\* TERMINATED_FAILED.
C19_CompensationFailureKept ==
  \A o \in Ops :
    ( /\ ReserveFailedAtLeg(o) /\ CompensationsOver(o)
      /\ \E i \in DOMAIN ops[o].comps : ops[o].comps[i] = "fail" )
    => /\ ops[o].err = "ConnectionCreateError"
       /\ conns[ops[o].conn].lifecycle_state = TERMINATED_FAILED

\* The source and destination of the row are an input error of Reserve.
InputError(row) ==
  \/ ~ hasNetwork(Topo, row.source_stp.network)
  \/ ~ hasNetwork(Topo, row.dest_stp.network)
  \/ /\ row.source_stp.network = SelfNetwork
     /\ ~ hasEndpoint(Topo, SelfNetwork, row.source_stp.port)
  \/ /\ row.dest_stp.network = SelfNetwork
     /\ ~ hasEndpoint(Topo, SelfNetwork, row.dest_stp.port)
  \/ /\ row.source_stp = row.dest_stp
     /\ singleValue(row.source_stp.labels)

\* C20: the step in which a Reserve is invoked either rejects it, leaving
\* every row as it was and nothing dispatched (with a supplied connection_id
\* always: ConnectionExistsError when it is stored, else the refusal to
\* modify), or saves one ServiceConnection whose STPs have no input error.
C20_InputErrorsLeaveStore ==
  [][ \A o \in Ops :
        (ops[o].pc = "idle" /\ ops'[o].kind = "Reserve") =>
          /\ subs' = subs
          /\ ops'[o].legs = NoLegs /\ ~ ops'[o].fanout
          /\ IF ops'[o].pc = "done"
               THEN /\ conns' = conns
                    /\ ops'[o].conn = None
                    /\ ops'[o].err \in {"ConnectionExistsError", "NotImplementedError",
                                        "TopologyError", "IntegrityError"}
                    /\ ops'[o].connection_id # None =>
                         ops'[o].err = IF findBy(ops'[o].connection_id) # {}
                                         THEN "ConnectionExistsError"
                                         ELSE "NotImplementedError"
               ELSE /\ ops'[o].conn = Len(conns) + 1
                    /\ conns' = Append(conns, conns'[ops'[o].conn])
                    /\ ~ InputError(conns'[ops'[o].conn])
    ]_vars

\* One Reserve was rejected with TopologyError and one, with a supplied
\* connection_id that is stored, with ConnectionExistsError.
C20_Witness ==
  \E o \in Ops, p \in Ops :
    /\ ops[o].kind = "Reserve" /\ ops[o].pc = "done" /\ ops[o].conn = None
    /\ ops[o].err = "TopologyError"
    /\ ops[p].kind = "Reserve" /\ ops[p].pc = "done" /\ ops[p].conn = None
    /\ ops[p].err = "ConnectionExistsError"

\* C21: a Reserve that saved its connection and has ended, its compensating
\* terminates over, has not left the parent at RESERVE_CHECKING: the parent
\* is RESERVE_HELD (or further), or in a failure state.
C21_ReserveLeavesChecking ==
  \A o \in Ops :
    ( /\ ops[o].kind = "Reserve" /\ ops[o].pc = "done"
      /\ ops[o].conn # None /\ CompensationsOver(o) )
    => \/ conns[ops[o].conn].reservation_state # RESERVE_CHECKING
       \/ conns[ops[o].conn].lifecycle_state = TERMINATED_FAILED

\* C22: a Terminate that dispatched its TERMINATE calls and has ended
\* returned with the parent TERMINATED when every call succeeded, and
\* otherwise raised the internal error that tells of the failed legs, the
\* parent not TERMINATED.
C22_TerminateOutcome ==
  \A o \in Ops :
    (ops[o].kind = "Terminate" /\ ops[o].pc = "done" /\ ops[o].fanout) =>
      IF \A i \in DOMAIN ops[o].legs : ops[o].legs[i].st = "ok"
        THEN /\ ops[o].err = ""
             /\ conns[ops[o].conn].lifecycle_state = TERMINATED
        ELSE /\ ops[o].err = "InternalServerError"
             /\ conns[ops[o].conn].lifecycle_state # TERMINATED

\* The step ends the fan-out of operation o: its outcome is decided.
Decides(o) == ops[o].fanout /\ ops[o].pc = "waiting" /\ ops'[o].pc = "done"

\* The step makes a success transition of the parent id.
Succeeds(id) ==
  \/ /\ conns'[id].reservation_state # conns[id].reservation_state
     /\ conns'[id].reservation_state \in {RESERVE_HELD, RESERVED}
  \/ /\ conns'[id].provision_state # conns[id].provision_state
     /\ conns'[id].provision_state = PROVISIONED
  \/ /\ conns'[id].lifecycle_state # conns[id].lifecycle_state
     /\ conns'[id].lifecycle_state = TERMINATED

DispatchedLinks(o) == [i \in DOMAIN ops[o].legs |-> ops[o].legs[i].link]

\* Both STPs of the row are in the aggregator's own network.
LocalOnly(row) ==
  row.source_stp.network = SelfNetwork /\ row.dest_stp.network = SelfNetwork

\* C24: the links a Reserve dispatched are, for a connection within the own
\* network, the one link between its two ports, handled by LOCAL, and
\* otherwise a route that findPaths returned, no route it returned having
\* fewer hops.
C24_ShortestPathDispatched ==
  \A o \in Ops :
    (ops[o].kind = "Reserve" /\ ops[o].fanout) =>
      LET row == conns[ops[o].conn]
      IN  IF LocalOnly(row)
            THEN /\ DispatchedLinks(o)
                      = << Link(SelfNetwork, row.source_stp.port, row.dest_stp.port) >>
                 /\ ops[o].legs[1].cs = NSI2_LOCAL
          ELSE LET routes == findPaths(Topo, row.source_stp, row.dest_stp, NoBandwidth)
               IN  /\ \E k \in DOMAIN routes : routes[k] = DispatchedLinks(o)
                   /\ \A k \in DOMAIN routes : Len(DispatchedLinks(o)) <= Len(routes[k])

\* One Reserve dispatched the two-link route of a request for which
\* findPaths returned a three-link route first, and one the single link of
\* a local request.
C24_Witness ==
  \E o \in Ops, p \in Ops :
    /\ ops[o].kind = "Reserve" /\ ops[o].fanout /\ Len(ops[o].legs) = 2
    /\ Len(findPaths(Topo, conns[ops[o].conn].source_stp,
                     conns[ops[o].conn].dest_stp, NoBandwidth)[1]) = 3
    /\ ops[p].kind = "Reserve" /\ ops[p].fanout /\ LocalOnly(conns[ops[p].conn])

\* C25: every RESERVE leg is handled by LOCAL exactly when its link is in
\* the own network and is addressed to the NSA managing the link's network;
\* the Subconnection saved for it records that NSA as provider_nsa, and
\* local_link exactly when the link is in the own network.
C25_LegProvider ==
  /\ \A o \in Ops : \A i \in DOMAIN ops[o].legs :
       ops[o].kind = "Reserve" =>
         /\ ops[o].legs[i].cs = NSI2_LOCAL <=> ops[o].legs[i].link.network = SelfNetwork
         /\ ops[o].legs[i].provider_nsa
              = getNetwork(Topo, ops[o].legs[i].link.network).managing_nsa
  /\ \A sc \in subs :
       /\ sc.provider_nsa = getNetwork(Topo, sc.link.network).managing_nsa
       /\ sc.local_link <=> sc.link.network = SelfNetwork

\* C27: a RESERVE_COMMIT or TERMINATE leg is handled by the handler (LOCAL
\* or REMOTE) and addressed to the provider that the RESERVE leg of the
\* same Subconnection was.
C27_SameRouteAsReserve ==
  \A o \in Ops, p \in Ops :
    ( /\ ops[o].kind = "Reserve" /\ ops[p].kind \in {"ReserveCommit", "Terminate"}
      /\ ops[o].conn # None /\ ops[p].conn = ops[o].conn )
    => \A i \in DOMAIN ops[o].legs, j \in DOMAIN ops[p].legs :
         ops[o].legs[i].order_id = ops[p].legs[j].order_id =>
           /\ ops[p].legs[j].cs = ops[o].legs[i].cs
           /\ ops[p].legs[j].provider_nsa = ops[o].legs[i].provider_nsa

\* C28: the Subconnections of a TERMINATED parent, the legs that were
\* reserved, have each been sent a TERMINATE by a Terminate of the parent.
C28_TerminatedLegsTerminated ==
  \A id \in DOMAIN conns :
    conns[id].lifecycle_state = TERMINATED =>
      \A sc \in subconnections(id) :
        \E p \in Ops :
          /\ ops[p].kind = "Terminate" /\ ops[p].conn = id /\ ops[p].fanout
          /\ \E j \in DOMAIN ops[p].legs : ops[p].legs[j].order_id = sc.order_id

\* The network is VLAN capable and rewrites no VLAN.
VlanChecked(network) ==
  /\ endswith(network, << ".", "e", "t", "s" >>)
  /\ network \notin {"northernlight.ets", "netherlight.ets"}

\* The last decimal digit of a port name, -1 when it has none.
LastDigit(port) ==
  LET digits == { i \in DOMAIN Chars(port) : isdigit(Chars(port)[i]) }
  IN  IF digits = {} THEN 0 - 1
      ELSE int(Chars(port)[CHOOSE i \in digits : \A j \in digits : j <= i])

\* The tag of a port as documented: its last decimal digit, and without a
\* digit the code point of its last character modulo 4.
DocumentedTag(port) ==
  IF LastDigit(port) >= 0 THEN LastDigit(port)
  ELSE ord(Chars(port)[Len(Chars(port))]) % 4

\* The tag of a port as computed: the digits 0 to 3 stand for themselves and
\* 4 to 9 for 0 to 5; without a digit, the code point of the last character
\* less 4.
ComputedTag(port) ==
  CASE LastDigit(port) \in 0..3 -> LastDigit(port)
    [] LastDigit(port) \in 4..9 -> LastDigit(port) - 4
    [] OTHER -> ord(Chars(port)[Len(Chars(port))]) - 4

\* canConnect has returned.
Connected == call.fn = "canConnect" /\ call.pc = "returned"

\* C26 as stated: two ports of a VLAN-capable network that rewrites none
\* connect exactly when their documented tags are equal, and any two ports
\* of another network connect.
C26_DocumentedTagRule ==
  Connected =>
    call.result = IF VlanChecked(call.network)
                    THEN DocumentedTag(call.source_port) = DocumentedTag(call.dest_port)
                    ELSE TRUE

\* C26: two ports of a VLAN-capable network that rewrites none connect
\* exactly when their computed tags are equal (4 is taken off once from a
\* digit or code point above 3), and any two ports of another network
\* connect.
C26_ComputedTagRule ==
  Connected =>
    call.result = IF VlanChecked(call.network)
                    THEN ComputedTag(call.source_port) = ComputedTag(call.dest_port)
                    ELSE TRUE

\* canConnect found the ports s1 and s5 of S.ets to connect, their last
\* digits being 1 and 5.
C26_Witness ==
  /\ Connected /\ call.network = "S.ets"
  /\ call.source_port = "s1" /\ call.dest_port = "s5"
  /\ call.result

\* The keys of the reserveCommit, provision and terminate confirmations.
RequestKeys ==
  ConnIds \X {RESERVE_COMMIT_RESPONSE, PROVISION_RESPONSE, TERMINATE_RESPONSE}

\* The step is a call of the confirmation handler of the key k.
Confirms(k) ==
  /\ provider'.calls = provider.calls + 1
  /\ provider'.last.key = k
  /\ provider'.last.handler
       \in {"reserveCommitConfirmed", "provisionConfirmed", "terminateConfirmed"}

\* C30: a confirmation is forwarded only by its confirmation handler, and
\* never more often than its key was registered.  The handler, finding an
\* entry, forwards once with the header registered and removes that entry
\* alone; finding none, it forwards nothing, returns the success of None
\* and leaves the table as it was.
C30_ConsumedByFirstConfirmation ==
  [][ \A k \in RequestKeys :
        /\ provider'.forwarded[k] <= provider'.registered[k]
        /\ provider'.forwarded[k] # provider.forwarded[k] => Confirms(k)
        /\ Confirms(k) =>
             IF provider.notifications[k] # NoHeader
               THEN /\ provider'.forwarded[k] = provider.forwarded[k] + 1
                    /\ provider'.last.header = provider.notifications[k]
                    /\ provider'.last.result = "provider_client"
                    /\ provider'.notifications[k] = NoHeader
                    /\ \A other \in Keys \ {k} :
                         provider'.notifications[other] = provider.notifications[other]
               ELSE /\ provider'.forwarded = provider.forwarded
                    /\ provider'.last.header = NoHeader
                    /\ provider'.last.result = "None"
                    /\ provider'.notifications = provider.notifications
    ]_vars

\* A confirmation was forwarded for a key, and the confirmation handler of
\* that key, called again, has found no entry.
C30_Witness ==
  \E k \in RequestKeys :
    /\ provider.forwarded[k] = 1
    /\ provider.last.key = k /\ provider.last.result = "None"
    /\ provider.last.handler
         \in {"reserveCommitConfirmed", "provisionConfirmed", "terminateConfirmed"}

\* C31: when reserveConfirmed is the last handler called for a connection
\* of which a reserve with reply_to has been acknowledged (setNotify has
\* run, no acknowledgement is outstanding), the confirmation has been
\* forwarded to the requester, whichever of the two came first.
C31_ReserveConfirmedForwarded ==
  \A connection_id \in ConnIds :
    LET k == << connection_id, RESERVE_RESPONSE >>
    IN  ( /\ provider.last.handler = "reserveConfirmed" /\ provider.last.key = k
          /\ provider.registered[k] >= 1
          /\ \A ack \in provider.acks : ack.connection_id # connection_id )
        => provider.forwarded[k] >= 1

====
